---- MODULE Spec2Model ----
(***************************************************************************)
(* Model of src/app.py (cookie-reel): the batch pipeline of main(),        *)
(* download_content(), process_media() and sanitize_filename().            *)
(*                                                                         *)
(* Text is modelled as sequences of one-character strings, so that         *)
(* sanitising, splitting, suffix tests and sorting are computed character  *)
(* by character as the Python code does.  A path is a record               *)
(* [dir, name]: every file of a batch lives directly in the batch's        *)
(* scratch directory (batch_dir), and name is the file's base name.        *)
(* The external services (yt-dlp, ffmpeg, whisper, the file system calls   *)
(* that may raise) are nondeterministic choices over their outcomes.       *)
(***************************************************************************)
EXTENDS Integers, Sequences, FiniteSets, TLC

(***************************************************************************)
(* Bounds of the model.                                                    *)
(***************************************************************************)
\* longest input string given to sanitize_filename in SpecSanitize
MaxLen == 3
\* most non-blank lines in one batch
MaxLines == 2
\* most files yt-dlp writes into the scratch directory during one batch
MaxFiles == 2
\* most batch runs (clicks on a start button) in one session
MaxRuns == 2

(***************************************************************************)
(* Characters and strings.                                                 *)
(***************************************************************************)
\* the character class [\\/*?:"<>|] of line 39
IllegalChars == {"\\", "/", "*", "?", ":", "\"", "<", ">", "|"}

\* characters str.strip() removes (those of them the model's inputs use)
Whitespace == {" ", "\t"}

\* ord(c) for the characters the model uses (Python compares str by code point)
CodePoint(c) ==
  CASE c = "\t" -> 9   [] c = " " -> 32  [] c = "\"" -> 34 [] c = "*" -> 42
    [] c = "-" -> 45   [] c = "." -> 46  [] c = "/" -> 47  [] c = "0" -> 48
    [] c = "1" -> 49   [] c = "2" -> 50  [] c = "3" -> 51  [] c = "4" -> 52
    [] c = "5" -> 53   [] c = "6" -> 54  [] c = "7" -> 55  [] c = "8" -> 56
    [] c = "9" -> 57   [] c = ":" -> 58  [] c = "<" -> 60  [] c = ">" -> 62
    [] c = "?" -> 63   [] c = "I" -> 73  [] c = "\\" -> 92 [] c = "_" -> 95
    [] c = "a" -> 97   [] c = "b" -> 98  [] c = "c" -> 99  [] c = "d" -> 100
    [] c = "e" -> 101  [] c = "f" -> 102 [] c = "g" -> 103 [] c = "i" -> 105
    [] c = "j" -> 106  [] c = "k" -> 107 [] c = "l" -> 108 [] c = "m" -> 109
    [] c = "n" -> 110  [] c = "p" -> 112 [] c = "r" -> 114 [] c = "t" -> 116
    [] c = "u" -> 117  [] c = "v" -> 118 [] c = "x" -> 120 [] c = "y" -> 121
    [] c = "|" -> 124

\* a < b for two Python strings
RECURSIVE StrLess(_, _)
StrLess(a, b) ==
  IF b = <<>> THEN FALSE
  ELSE IF a = <<>> THEN TRUE
  ELSE IF Head(a) = Head(b) THEN StrLess(Tail(a), Tail(b))
  ELSE CodePoint(Head(a)) < CodePoint(Head(b))

\* sorted(S) for a set of strings (list.sort() of line 170)
RECURSIVE SortNames(_)
SortNames(S) ==
  IF S = {} THEN <<>>
  ELSE LET m == CHOOSE x \in S : \A y \in S \ {x} : StrLess(x, y)
       IN <<m>> \o SortNames(S \ {m})

\* s.endswith(p)
EndsWith(s, p) == Len(s) >= Len(p) /\ SubSeq(s, Len(s) - Len(p) + 1, Len(s)) = p

\* s.lstrip(), s.rstrip(), s.strip()
RECURSIVE LStrip(_)
LStrip(s) == IF s # <<>> /\ Head(s) \in Whitespace THEN LStrip(Tail(s)) ELSE s
RECURSIVE RStrip(_)
RStrip(s) ==
  IF s # <<>> /\ s[Len(s)] \in Whitespace THEN RStrip(SubSeq(s, 1, Len(s) - 1)) ELSE s
Strip(s) == RStrip(LStrip(s))

\* s.find(sub): the first (1-based) position of sub in s, 0 when absent
Find(s, sub) ==
  LET hits == {p \in 1..(Len(s) - Len(sub) + 1) : SubSeq(s, p, p + Len(sub) - 1) = sub}
  IN IF hits = {} THEN 0 ELSE CHOOSE p \in hits : \A q \in hits : p <= q

\* s.rfind("."): the last (1-based) position of a dot in s, 0 when absent
RFindDot(s) ==
  LET hits == {p \in 1..Len(s) : s[p] = "."}
  IN IF hits = {} THEN 0 ELSE CHOOSE p \in hits : \A q \in hits : p >= q

\* str(n) for a natural number (the f-string of line 67)
RECURSIVE Dec(_)
Dec(n) ==
  LET digits == <<"0", "1", "2", "3", "4", "5", "6", "7", "8", "9">>
  IN IF n < 10 THEN <<digits[n + 1]>> ELSE Dec(n \div 10) \o <<digits[(n % 10) + 1]>>

\* the string literals of the code
MediaFile == <<"m", "e", "d", "i", "a", "_", "f", "i", "l", "e">>
DotMp4 == <<".", "m", "p", "4">>
DotJpg == <<".", "j", "p", "g">>
DotTxt == <<".", "t", "x", "t">>
DotPart == <<".", "p", "a", "r", "t">>
DotYtdl == <<".", "y", "t", "d", "l">>
Suffix1080p == <<"_", "1", "0", "8", "0", "p", ".", "m", "p", "4">>
Separator == <<" ", "-", " ">>

(***************************************************************************)
(* sanitize_filename (lines 37-40)                                         *)
(***************************************************************************)
\* a plausible slip: the empty result is returned as it is
sanitize_filename_nofallback(name) ==
  Strip(SelectSeq(name, LAMBDA c : c \notin IllegalChars))

sanitize_filename(name) ==
  LET cleaned == Strip(SelectSeq(name, LAMBDA c : c \notin IllegalChars))
  IN IF cleaned # <<>> THEN cleaned ELSE MediaFile

(***************************************************************************)
(* pathlib and mimetypes                                                   *)
(***************************************************************************)
\* Path(name).suffix: from the last dot, unless that dot is first or last
PathSuffix(name) ==
  LET p == RFindDot(name)
  IN IF 1 < p /\ p < Len(name) THEN SubSeq(name, p, Len(name)) ELSE <<>>

\* Path(name).stem
PathStem(name) ==
  LET p == RFindDot(name)
  IN IF 1 < p /\ p < Len(name) THEN SubSeq(name, 1, p - 1) ELSE name

\* mimetypes.guess_type(name)[0], reduced to its major type ("" for None)
guess_type(name) ==
  LET ext == PathSuffix(name)
  IN CASE ext \in {DotMp4, <<".", "m", "k", "v">>} -> "video"
       [] ext \in {DotJpg} -> "image"
       [] ext = DotTxt -> "text"
       [] ext = <<".", "b", "i", "n">> -> "application"
       [] OTHER -> ""

\* the extension lists of lines 61-62 (those the model's names can carry)
VideoExts == {DotMp4, <<".", "m", "k", "v">>}
ImageExts == {DotJpg}

(***************************************************************************)
(* Values                                                                  *)
(***************************************************************************)
\* a path of the scratch directory d; NonePath stands for Python's None
Path(d, n) == [dir |-> d, name |-> n]
NonePath == [dir |-> 0, name |-> <<>>]

\* an optional message: Python's None, or a str
NoneMsg == [some |-> FALSE, text |-> ""]
Msg(t) == [some |-> TRUE, text |-> t]

\* the message of line 173
NoFilesMsg == Msg("No files found (Check cookies or link)")

\* what a file holds: its form, the acquired file it was made from (the line
\* that fetched it and the name it was fetched under) and whether it has bytes
Content(form, line, raw, size) == [form |-> form, line |-> line, raw |-> raw, size |-> size]

\* the file system calls on the scratch directory's listing fs (name -> content)
Remove(fs, n) == [x \in (DOMAIN fs) \ {n} |-> fs[x]]
WriteFile(fs, n, c) == (n :> c) @@ fs
Move(fs, src, dst) == Remove(WriteFile(fs, dst, fs[src]), src)

(***************************************************************************)
(* The inputs of the model.                                                *)
(***************************************************************************)
\* the lines a user may paste: "u", "v?x - t/ " and a blank line
RawLineSet ==
  { <<"u">>,
    <<"v", "?", "x", " ", "-", " ", "t", "/", " ">>,
    <<" ">> }

RawInputs == UNION {[1..n -> RawLineSet] : n \in 0..MaxLines}

\* the names yt-dlp may write ('%(id)s.%(ext)s', and its .part and .ytdl files)
RawNames ==
  { <<"a", ".", "m", "k", "v">>,
    <<"t", ".", "m", "p", "4">>,
    <<"a", ".", "j", "p", "g">>,
    <<"a", ".", "b", "i", "n">>,
    <<"a", ".", "p", "a", "r", "t">>,
    <<"a", ".", "y", "t", "d", "l">> }

\* the inputs of sanitize_filename in SpecSanitize
SanAlphabet == IllegalChars \cup {"a", " ", "."}
SanInputs == UNION {[1..n -> SanAlphabet] : n \in 0..MaxLen}

(***************************************************************************)
(* The external services.                                                  *)
(***************************************************************************)
\* ffmpeg.run(stream, overwrite_output=True) on input -> output:
\*   "ok"     a non-empty output file is written, no exception
\*   "empty"  a zero-byte output file is left, no exception
\*   "none"   nothing is written, no exception
\*   "raise"  an exception, nothing written
\*   "raise_empty"    an exception, after the output file was created or
\*                    emptied: a zero-byte output file is left
\*   "raise_partial"  an exception, after part of the output was written
\* The ffmpeg program compares the output's name with every input's before it
\* opens the output, and exits with an error when they are the same ("FFmpeg
\* cannot edit existing files in-place"); ffmpeg.run raises on that exit.
TranscodeOutcomes(input, output) ==
  IF input = output THEN {"raise"}
  ELSE {"ok", "empty", "none", "raise", "raise_empty", "raise_partial"}

\* the transcode outcomes that leave ffmpeg.run by an exception
TranscodeRaised == {"raise", "raise_empty", "raise_partial"}

\* model.transcribe and the writing of the text file (lines 105-112):
\*   "ok"           the transcript is written
\*   "blank"        whisper's text is blank: a zero-byte text file is written
\*   "raise"        an exception before open() of line 111: nothing is written
\*   "raise_write"  an exception from the write of line 112, after open() has
\*                  created the text file or emptied the one that was there
\*   "raise_partial"  an exception from the write of line 112 or from the
\*                  close of the file, after part of the text reached the file
TranscribeOutcomes == {"ok", "blank", "raise", "raise_write", "raise_partial"}

\* shutil.move(input_path, output_path) (line 139):
\*   "ok"            the input is now the output
\*   "raise"         an exception, nothing done
\*   "raise_empty"   the rename was refused and the copy raised after it
\*                   created or emptied the output
\*   "raise_partial" the rename was refused and the copy raised after it
\*                   wrote part of the output
\*   "raise_copied"  the rename was refused, the input was copied onto the
\*                   output, and the removal of the input raised
MoveOutcomes == {"ok", "raise", "raise_empty", "raise_partial", "raise_copied"}

\* what the environment does to one process_media call: the transcode, the
\* os.remove of the input, the transcription, the shutil.move
Envs(input, output) ==
  [tc : TranscodeOutcomes(input, output), rm : {"ok", "raise"},
   tr : TranscribeOutcomes, mv : MoveOutcomes]

\* the scratch directory after ffmpeg.run (lines 86-97, 131-133)
ffmpeg_run(fs, input, output, tc, form) ==
  CASE tc = "ok" -> WriteFile(fs, output, Content(form, fs[input].line, fs[input].raw, 1))
    [] tc \in {"empty", "raise_empty"} ->
         WriteFile(fs, output, Content(form, fs[input].line, fs[input].raw, 0))
    [] tc = "raise_partial" ->
         WriteFile(fs, output, Content("partial", fs[input].line, fs[input].raw, 1))
    [] OTHER -> fs

(***************************************************************************)
(* process_media (lines 42-142)                                            *)
(*                                                                         *)
(* process_media(fs, d, name, custom_name, index, mode, e) is the call     *)
(* process_media(d/name, custom_name, index, mode) made when the scratch   *)
(* directory d lists fs and the environment answers e.  custom_name <<>>   *)
(* stands for None.  The result holds the listing afterwards, the pair     *)
(* the call returns, whether an exception left the call instead, and ev,   *)
(* a record of what the call did (for the properties):                     *)
(*   kind        "missing", "video", "image" or "other"                    *)
(*   output      the output file name the call chose                       *)
(*   tc          the transcode's outcome, "skip" when ffmpeg was not run   *)
(*   deleted     os.remove(input_path) was done                            *)
(*   out_exists, out_size   the output file at the moment of that removal  *)
(*   tr          the transcription's outcome, "skip" when not invoked      *)
(*   moved       shutil.move(input_path, output_path) was done             *)
(***************************************************************************)
Ret(fs, media, transcript, raised, ev) ==
  [fs |-> fs, media |-> media, transcript |-> transcript, raised |-> raised, ev |-> ev]

Ev(kind, output, tc) ==
  [kind |-> kind, output |-> output, tc |-> tc, deleted |-> FALSE,
   out_exists |-> FALSE, out_size |-> 0, tr |-> "skip", moved |-> FALSE]

\* lines 52-62: the two flags of the media type
is_video(name) ==
  LET kind == guess_type(name)
  IN IF kind # "" THEN kind = "video" ELSE PathSuffix(name) \in VideoExts

is_image(name) ==
  LET kind == guess_type(name)
  IN IF kind # "" THEN kind = "image" ELSE PathSuffix(name) \in ImageExts

\* a plausible slip: the 0-based position is appended, not position + 1
safe_name_index(custom_name, index) ==
  IF index > 0
  THEN sanitize_filename(custom_name) \o <<"_">> \o Dec(index)
  ELSE sanitize_filename(custom_name)

\* lines 66-67
safe_name(custom_name, index) ==
  IF index > 0
  THEN sanitize_filename(custom_name) \o <<"_">> \o Dec(index + 1)
  ELSE sanitize_filename(custom_name)

\* a plausible slip: the resolution tag is appended to a custom name too
output_filename_tagged(name, custom_name, index) ==
  IF custom_name # <<>>
  THEN LET suffix == IF is_video(name) THEN Suffix1080p
                     ELSE IF is_image(name) THEN DotJpg
                     ELSE PathSuffix(name)
       IN safe_name(custom_name, index) \o suffix
  ELSE IF is_video(name) THEN PathStem(name) \o Suffix1080p
       ELSE IF is_image(name) THEN PathStem(name) \o DotJpg
       ELSE name

\* lines 65-77
output_filename(name, custom_name, index) ==
  IF custom_name # <<>>
  THEN LET suffix == IF is_video(name) THEN DotMp4
                     ELSE IF is_image(name) THEN DotJpg
                     ELSE PathSuffix(name)
       IN safe_name(custom_name, index) \o suffix
  ELSE IF is_video(name) THEN PathStem(name) \o Suffix1080p
       ELSE IF is_image(name) THEN PathStem(name) \o DotJpg
       ELSE name

\* a plausible slip: every mode transcribes
wants_transcript_always(mode) == TRUE

\* line 103
wants_transcript(mode) == mode \in {"transcript_only", "both"}

\* line 118
wants_media(mode) == mode \in {"video_only", "both"}

\* the answers of e the call process_media(d/name, ..., mode) comes to ask for,
\* by the control flow of lines 50-140; an answer that is not asked for is
\* "raise" (transcode) or "ok" (the others), so that one behaviour of the
\* call is one choice of e
Asked(fs, name, output, mode, e) ==
  LET ran == /\ name \in DOMAIN fs
             /\ is_video(name) \/ (is_image(name) /\ mode # "transcript_only")
      exists == /\ ran
                /\ \/ e.tc \in {"ok", "empty"}
                   \/ e.tc = "none" /\ output \in DOMAIN fs
      rm_asked == exists /\ name # output
      rm_failed == rm_asked /\ e.rm = "raise"
      tr_asked == /\ is_video(name) /\ exists /\ ~rm_failed
                  /\ wants_transcript(mode)
      mv_asked == /\ ran /\ is_image(name) /\ name # output
                  /\ e.tc \in TranscodeRaised \/ rm_failed
  IN /\ ~ran => e.tc = "raise"
     /\ ~rm_asked => e.rm = "ok"
     /\ ~tr_asked => e.tr = "ok"
     /\ ~mv_asked => e.mv = "ok"

\* lines 83-123, and line 142 when ffmpeg left no output
process_video(fs, d, name, output, mode, e) ==
  LET fs1 == ffmpeg_run(fs, name, output, e.tc, "mp4")
      ev0 == Ev("video", output, e.tc)
  IN IF e.tc \in TranscodeRaised
     THEN Ret(fs1, Path(d, name), NonePath, FALSE, ev0)
     ELSE IF output \notin DOMAIN fs1
     THEN Ret(fs1, Path(d, name), NonePath, FALSE, ev0)
     ELSE IF name # output /\ e.rm = "raise"
     THEN Ret(fs1, Path(d, name), NonePath, FALSE, ev0)
     ELSE
       LET fs2 == IF name # output THEN Remove(fs1, name) ELSE fs1
           ev1 == [ev0 EXCEPT !.deleted = (name # output),
                              !.out_exists = (name # output),
                              !.out_size = IF name # output THEN fs1[output].size ELSE 0]
           txt == PathStem(output) \o DotTxt
           transcribed == wants_transcript(mode) /\ e.tr \in {"ok", "blank"}
           opened == wants_transcript(mode) /\ e.tr = "raise_write"
           fs3 == IF transcribed
                  THEN WriteFile(fs2, txt,
                         Content("txt", fs2[output].line, fs2[output].raw,
                                 IF e.tr = "ok" THEN 1 ELSE 0))
                  ELSE IF opened
                  THEN WriteFile(fs2, txt,
                         Content("txt", fs2[output].line, fs2[output].raw, 0))
                  ELSE IF wants_transcript(mode) /\ e.tr = "raise_partial"
                  THEN WriteFile(fs2, txt,
                         Content("partial", fs2[output].line, fs2[output].raw, 1))
                  ELSE fs2
           ev2 == [ev1 EXCEPT !.tr = IF wants_transcript(mode) THEN e.tr ELSE "skip"]
       IN Ret(fs3,
              IF wants_media(mode) THEN Path(d, output) ELSE NonePath,
              IF transcribed THEN Path(d, txt) ELSE NonePath,
              FALSE, ev2)

\* lines 126-140, and line 142 when ffmpeg left no output
process_image(fs, d, name, output, mode, e) ==
  IF mode = "transcript_only"
  THEN Ret(fs, NonePath, NonePath, FALSE, Ev("image", output, "skip"))
  ELSE
    LET fs1 == ffmpeg_run(fs, name, output, e.tc, "jpg")
        ev0 == Ev("image", output, e.tc)
    IN IF e.tc \notin TranscodeRaised /\ output \notin DOMAIN fs1
       THEN Ret(fs1, Path(d, name), NonePath, FALSE, ev0)
       ELSE IF e.tc \notin TranscodeRaised /\ (name = output \/ e.rm = "ok")
       THEN Ret(IF name # output THEN Remove(fs1, name) ELSE fs1,
                Path(d, output), NonePath, FALSE,
                [ev0 EXCEPT !.deleted = (name # output),
                            !.out_exists = (name # output),
                            !.out_size = IF name # output THEN fs1[output].size ELSE 0])
       \* the except clause: ffmpeg raised, or os.remove did
       ELSE IF name = output
       THEN Ret(fs1, Path(d, output), NonePath, FALSE, ev0)
       ELSE IF e.mv = "ok"
       THEN Ret(Move(fs1, name, output), Path(d, output), NonePath, FALSE,
                [ev0 EXCEPT !.moved = TRUE])
       ELSE IF e.mv = "raise_copied"
       THEN Ret(WriteFile(fs1, output, fs1[name]), NonePath, NonePath, TRUE, ev0)
       ELSE IF e.mv = "raise_empty"
       THEN Ret(WriteFile(fs1, output, [fs1[name] EXCEPT !.size = 0]),
                NonePath, NonePath, TRUE, ev0)
       ELSE IF e.mv = "raise_partial"
       THEN Ret(WriteFile(fs1, output, [fs1[name] EXCEPT !.form = "partial", !.size = 1]),
                NonePath, NonePath, TRUE, ev0)
       ELSE Ret(fs1, NonePath, NonePath, TRUE, ev0)

\* a plausible slip: a video whose transcode failed is dropped, not returned
process_media_dropping(fs, d, name, custom_name, index, mode, e) ==
  IF name \notin DOMAIN fs
  THEN Ret(fs, NonePath, NonePath, FALSE, Ev("missing", name, "skip"))
  ELSE
    LET output == output_filename(name, custom_name, index)
        r == process_video(fs, d, name, output, mode, e)
    IN IF is_video(name)
       THEN IF r.ev.deleted \/ name = output THEN r ELSE [r EXCEPT !.media = NonePath]
       ELSE IF is_image(name) THEN process_image(fs, d, name, output, mode, e)
       ELSE Ret(fs, Path(d, name), NonePath, FALSE, Ev("other", output, "skip"))

\* lines 42-142
process_media(fs, d, name, custom_name, index, mode, e) ==
  IF name \notin DOMAIN fs
  THEN Ret(fs, NonePath, NonePath, FALSE, Ev("missing", name, "skip"))
  ELSE
    LET output == output_filename(name, custom_name, index)
    IN IF is_video(name) THEN process_video(fs, d, name, output, mode, e)
       ELSE IF is_image(name) THEN process_image(fs, d, name, output, mode, e)
       ELSE Ret(fs, Path(d, name), NonePath, FALSE, Ev("other", output, "skip"))

(***************************************************************************)
(* The state.                                                              *)
(***************************************************************************)
VARIABLES
  \* st.session_state (lines 201-206), and the scratch directories on disk
  processed_items,   \* sequence of [media, transcript, name]
  failed_lines,      \* sequence of <<url, error message>>
  batch_dir,         \* 0 for None, else the directory mkdtemp returned
  dirs,              \* the scratch directories that exist
  files,             \* the listing of batch_dir: file name -> content
  \* the script run of main()
  phase,             \* "idle", "running" (the loop of line 252), "done"
                     \* (st.rerun of line 292 reached), "aborted"
  runs,              \* batch runs started so far
  lines,             \* line 245
  i,                 \* the index of the line in hand (line 252, 0-based)
  process_mode,      \* lines 224-234
  \* the call of download_content in progress
  pc,                \* "fetch", "process" or "finish"
  new_files,         \* line 170
  fi,                \* the index of the file in hand (line 178, 0-based)
  fetched,           \* files yt-dlp has written during this batch
  processed_media_files,
  processed_transcript_files,
  error_msg,         \* the third component download_content returns
  \* what the last fetch, the last process_media call and the last finished
  \* line did (read by the properties only)
  lastFetch, lastCall, lastLine,
  \* the call of sanitize_filename of SpecSanitize: [pc, input, output]
  san

session == <<processed_items, failed_lines, batch_dir, dirs, files>>
script == <<phase, runs, lines, i, process_mode>>
download == <<pc, new_files, fi, fetched, processed_media_files,
              processed_transcript_files, error_msg>>
history == <<lastFetch, lastCall, lastLine>>
vars == <<session, script, download, history, san>>

NoContent == Content("none", 0, <<>>, 0)
EmptyDir == [n \in {} |-> NoContent]

NoFetch ==
  [line |-> -1, url |-> <<>>, attempts |-> 0, raised |-> NoneMsg,
   existing |-> {}, found |-> <<>>]
NoCall ==
  [line |-> -1, name |-> <<>>, custom_name |-> <<>>, index |-> 0, mode |-> "",
   prior |-> NoContent, origin |-> NoContent, media |-> NonePath,
   transcript |-> NonePath, raised |-> FALSE, ev |-> Ev("none", <<>>, "skip")]
NoLine ==
  [line |-> -1, url |-> <<>>, raised |-> NoneMsg, items_before |-> 0,
   failed_before |-> 0, added |-> 0, files |-> 0]
NoSan == [pc |-> "idle", input |-> <<>>, output |-> <<>>]

Init ==
  /\ processed_items = <<>>
  /\ failed_lines = <<>>
  /\ batch_dir = 0
  /\ dirs = {}
  /\ files = EmptyDir
  /\ phase = "idle"
  /\ runs = 0
  /\ lines = <<>>
  /\ i = 0
  /\ process_mode = "both"
  /\ pc = "fetch"
  /\ new_files = <<>>
  /\ fi = 0
  /\ fetched = 0
  /\ processed_media_files = <<>>
  /\ processed_transcript_files = <<>>
  /\ error_msg = NoneMsg
  /\ lastFetch = NoFetch
  /\ lastCall = NoCall
  /\ lastLine = NoLine
  /\ san = NoSan

(***************************************************************************)
(* main(): starting a batch (lines 226-250)                                *)
(***************************************************************************)
\* cleanup_temp([p]) on the set ds of existing directories (lines 23-29);
\* rmtree_ok: shutil.rmtree did not raise
cleanup_temp(ds, p, rmtree_ok) ==
  IF p # 0 /\ p \in ds /\ rmtree_ok THEN ds \ {p} ELSE ds

\* line 245: the stripped non-blank lines of the text area
non_blank_lines(raw) ==
  LET stripped == [n \in 1..Len(raw) |-> Strip(raw[n])]
  IN SelectSeq(stripped, LAMBDA l : l # <<>>)

\* lines 253-259
parse_line(line) ==
  LET p == Find(line, Separator)
  IN IF p > 0
     THEN [url |-> Strip(SubSeq(line, 1, p - 1)),
           custom_name |-> Strip(SubSeq(line, p + Len(Separator), Len(line)))]
     ELSE [url |-> line, custom_name |-> <<>>]

\* line 148
strip_query(url) ==
  LET p == Find(url, <<"?">>)
  IN IF p > 0 THEN SubSeq(url, 1, p - 1) ELSE url

\* what shutil.rmtree may leave of the listing fs when it raises (line 27):
\* any part of the files may be gone by then
rmtree_left(fs) == {[n \in S |-> fs[n]] : S \in SUBSET DOMAIN fs}

\* the listings process_media(d/name, ...) may have made of fs when it comes to
\* load_whisper (line 105): the file is a video, the mode asks for a
\* transcript, ffmpeg has left an output and the input has been removed
at_load_whisper(fs, name, output, mode) ==
  IF name \notin DOMAIN fs \/ ~is_video(name) \/ ~wants_transcript(mode)
  THEN {}
  ELSE LET after(tc) == ffmpeg_run(fs, name, output, tc, "mp4")
       IN {IF name # output THEN Remove(after(tc), name) ELSE after(tc) :
             tc \in {t \in TranscodeOutcomes(name, output) \ TranscodeRaised :
                       output \in DOMAIN after(t)}}

\* A widget event makes Streamlit stop the script run in progress at its next
\* st.* call and run the script again.  The st.* calls of a batch are those of
\* lines 263 and 289, between two lines, and load_whisper (st.cache_resource,
\* line 105) inside process_media.  rerun_listings is the set of listings the
\* scratch directory may have when the next script run starts.
rerun_listings ==
  IF phase # "running" \/ pc = "fetch" THEN {files}
  ELSE IF pc = "process"
  THEN at_load_whisper(files, new_files[fi + 1],
         output_filename(new_files[fi + 1],
                         parse_line(lines[i + 1]).custom_name, fi),
         process_mode)
  ELSE {}

\* lines 237-250, entered with process_mode = mode.  With no line the script
\* warns and runs to its end (line 248); otherwise the loop of line 252 starts.
\* The buttons are live while a batch runs: a click stops the script run in
\* progress (see rerun_listings) and runs the script again with the button
\* pressed.  The new batch has a new scratch directory.
StartProcessing(mode) ==
  /\ rerun_listings # {}
  /\ runs < MaxRuns
  /\ \E raw \in RawInputs, rmtree_ok \in BOOLEAN :
       /\ processed_items' = <<>>
       /\ failed_lines' = <<>>
       /\ dirs' = cleanup_temp(dirs, batch_dir, rmtree_ok) \cup {runs + 1}
       /\ batch_dir' = runs + 1
       /\ files' = EmptyDir
       /\ lines' = non_blank_lines(raw)
       /\ phase' = IF non_blank_lines(raw) = <<>> THEN "idle" ELSE "running"
  /\ runs' = runs + 1
  /\ i' = 0
  /\ process_mode' = mode
  /\ pc' = "fetch"
  /\ new_files' = <<>>
  /\ fi' = 0
  /\ fetched' = 0
  /\ processed_media_files' = <<>>
  /\ processed_transcript_files' = <<>>
  /\ error_msg' = NoneMsg
  /\ lastFetch' = NoFetch
  /\ lastCall' = NoCall
  /\ lastLine' = NoLine
  /\ UNCHANGED san

\* the button "Download All" (lines 227-229)
DownloadAll == StartProcessing("video_only")

\* the button "Download & Transcribe All" (lines 232-234)
DownloadAndTranscribeAll == StartProcessing("both")

(***************************************************************************)
(* download_content (lines 144-185), in three steps: the fetch and the     *)
(* directory diff, one process_media call per new file, and the return     *)
(* to main()'s loop body (lines 267-289).                                  *)
(***************************************************************************)
\* a plausible slip: the partial downloads are not dropped
new_files_after_unfiltered(existing_files, current_files) ==
  SortNames(current_files \ existing_files)

\* lines 167-170: the new entries, partial downloads dropped, sorted
new_files_after(existing_files, current_files) ==
  SortNames({f \in current_files \ existing_files :
               ~EndsWith(f, DotPart) /\ ~EndsWith(f, DotYtdl)})

\* lines 161-165: the calls of ydl.download one download_content makes
download_calls(raised, found) == 1

\* lines 145-173.  yt-dlp writes the names `written` (it leaves a file that is
\* already there as it is) and raises or not.
Fetch ==
  /\ phase = "running"
  /\ pc = "fetch"
  /\ \E written \in SUBSET (RawNames \ DOMAIN files),
        raised \in {NoneMsg, Msg("download error")} :
       LET existing_files == DOMAIN files
           url == parse_line(lines[i + 1]).url
           files1 == [n \in existing_files \cup written |->
                        IF n \in existing_files THEN files[n]
                        ELSE Content("raw", i, n, 1)]
           found == new_files_after(existing_files, DOMAIN files1)
       IN /\ fetched + Cardinality(written) <= MaxFiles
          /\ fetched' = fetched + Cardinality(written)
          /\ files' = files1
          /\ new_files' = found
          /\ pc' = IF found = <<>> THEN "finish" ELSE "process"
          /\ error_msg' = IF found = <<>> THEN NoFilesMsg ELSE NoneMsg
          /\ lastFetch' = [line |-> i, url |-> strip_query(url),
                           attempts |-> download_calls(raised, found),
                           raised |-> raised, existing |-> existing_files,
                           found |-> found]
  /\ fi' = 0
  /\ processed_media_files' = <<>>
  /\ processed_transcript_files' = <<>>
  /\ UNCHANGED <<processed_items, failed_lines, batch_dir, dirs, script,
                 lastCall, lastLine, san>>

\* lines 178-183: process_media on the file in hand.  An exception that
\* leaves process_media leaves download_content and main() too: nothing
\* between line 139 and the script's top level catches it.
\* This is the call that runs to its end; the call stopped at load_whisper
\* by a widget event is part of StartProcessing, StartFresh and Rerun (see
\* rerun_listings).
ProcessFile ==
  /\ phase = "running"
  /\ pc = "process"
  /\ LET f == new_files[fi + 1]
         custom_name == parse_line(lines[i + 1]).custom_name
         output == output_filename(f, custom_name, fi)
     IN \E e \in {x \in Envs(f, output) : Asked(files, f, output, process_mode, x)} :
          LET r == process_media(files, batch_dir, f, custom_name, fi, process_mode, e)
          IN /\ files' = r.fs
             /\ lastCall' = [line |-> i, name |-> f, custom_name |-> custom_name,
                             index |-> fi, mode |-> process_mode,
                             prior |-> IF output \in DOMAIN files
                                       THEN files[output] ELSE NoContent,
                             origin |-> files[f],
                             media |-> r.media, transcript |-> r.transcript,
                             raised |-> r.raised, ev |-> r.ev]
             /\ IF r.raised
                THEN /\ phase' = "aborted"
                     /\ UNCHANGED <<download>>
                ELSE /\ phase' = phase
                     /\ processed_media_files' =
                          IF r.media # NonePath
                          THEN Append(processed_media_files, r.media)
                          ELSE processed_media_files
                     /\ processed_transcript_files' =
                          IF r.transcript # NonePath
                          THEN Append(processed_transcript_files, r.transcript)
                          ELSE processed_transcript_files
                     /\ fi' = fi + 1
                     /\ pc' = IF fi + 1 = Len(new_files) THEN "finish" ELSE "process"
                     /\ UNCHANGED <<new_files, fetched, error_msg>>
  /\ UNCHANGED <<processed_items, failed_lines, batch_dir, dirs,
                 runs, lines, i, process_mode, lastFetch, lastLine, san>>

\* a plausible slip: the two lists are zipped, which stops at the shorter one
items_of_zip(m_paths, t_paths) ==
  LET count == IF Len(m_paths) <= Len(t_paths) THEN Len(m_paths) ELSE Len(t_paths)
  IN [idx \in 1..count |->
        [media |-> m_paths[idx], transcript |-> t_paths[idx],
         name |-> m_paths[idx].name]]

\* a plausible slip: one item per transcript path, the media beyond them lost
items_of_transcripts(m_paths, t_paths) ==
  [idx \in 1..Len(t_paths) |->
     [media |-> IF idx <= Len(m_paths) THEN m_paths[idx] ELSE NonePath,
      transcript |-> t_paths[idx],
      name |-> IF idx <= Len(m_paths) THEN m_paths[idx].name
               ELSE <<"I", "t", "e", "m", " ">> \o Dec(idx)]]

\* lines 278-284: the items one line adds
items_of(m_paths, t_paths) ==
  LET count == IF Len(m_paths) >= Len(t_paths) THEN Len(m_paths) ELSE Len(t_paths)
  IN [idx \in 1..count |->
        [media |-> IF idx <= Len(m_paths) THEN m_paths[idx] ELSE NonePath,
         transcript |-> IF idx <= Len(t_paths) THEN t_paths[idx] ELSE NonePath,
         name |-> IF idx <= Len(m_paths) /\ m_paths[idx] # NonePath
                  THEN m_paths[idx].name
                  ELSE <<"I", "t", "e", "m", " ">> \o Dec(idx)]]

\* lines 185 and 267-292: download_content returns, the line's items or its
\* failure are stored, and the loop goes on or the script reruns
FinishLine ==
  /\ phase = "running"
  /\ pc = "finish"
  /\ LET url == parse_line(lines[i + 1]).url
         m_paths == processed_media_files
         t_paths == processed_transcript_files
         usable == m_paths # <<>> \/ t_paths # <<>>
     IN /\ processed_items' =
             IF usable THEN processed_items \o items_of(m_paths, t_paths)
             ELSE processed_items
        /\ failed_lines' =
             IF usable THEN failed_lines
             ELSE Append(failed_lines, <<url, error_msg>>)
        /\ lastLine' = [line |-> i, url |-> url, raised |-> lastFetch.raised,
                        items_before |-> Len(processed_items),
                        failed_before |-> Len(failed_lines),
                        added |-> IF usable THEN Len(items_of(m_paths, t_paths)) ELSE 0,
                        files |-> Len(new_files)]
  /\ i' = i + 1
  /\ phase' = IF i + 1 = Len(lines) THEN "done" ELSE "running"
  /\ pc' = "fetch"
  /\ UNCHANGED <<batch_dir, dirs, files, runs, lines, process_mode,
                 new_files, fi, fetched, processed_media_files,
                 processed_transcript_files, error_msg, lastFetch, lastCall, san>>

(***************************************************************************)
(* main(): "Start Fresh Session" (lines 295-305)                           *)
(***************************************************************************)
\* a plausible slip: the scratch directory is removed, the results are kept
StartFresh_keeping_items ==
  /\ processed_items # <<>>
  /\ \E fs \in rerun_listings, rmtree_ok \in BOOLEAN :
       /\ dirs' = cleanup_temp(dirs, batch_dir, rmtree_ok)
       /\ files' \in IF batch_dir \notin dirs THEN {fs}
                     ELSE IF rmtree_ok THEN {EmptyDir} ELSE rmtree_left(fs)
  /\ phase' = "idle"
  /\ lastFetch' = NoFetch
  /\ lastCall' = NoCall
  /\ lastLine' = NoLine
  /\ UNCHANGED <<processed_items, failed_lines, batch_dir, runs, lines, i,
                 process_mode, download, san>>

\* lines 295-305: the button is there whenever the script run comes to line
\* 295 with items, also the run that follows a stopped or a failed batch
StartFresh ==
  /\ processed_items # <<>>
  /\ \E fs \in rerun_listings, rmtree_ok \in BOOLEAN :
       /\ dirs' = cleanup_temp(dirs, batch_dir, rmtree_ok)
       /\ files' \in IF batch_dir \notin dirs THEN {fs}
                     ELSE IF rmtree_ok THEN {EmptyDir} ELSE rmtree_left(fs)
  /\ processed_items' = <<>>
  /\ failed_lines' = <<>>
  /\ phase' = "idle"
  /\ lastFetch' = NoFetch
  /\ lastCall' = NoCall
  /\ lastLine' = NoLine
  /\ UNCHANGED <<batch_dir, runs, lines, i, process_mode, download, san>>

(***************************************************************************)
(* main(): a script run with no button pressed (lines 188-305)             *)
(***************************************************************************)
\* Any other widget event (the text area, the cookie upload, a download
\* button) while a batch runs: the script run in progress is stopped (see
\* rerun_listings) and the script runs again from its top with
\* start_processing False, so the batch is abandoned: the lines not yet
\* handled never are, and the session keeps what the finished lines stored.
\* With no batch running such a run changes nothing.
Rerun ==
  /\ phase = "running"
  /\ \E fs \in rerun_listings : files' = fs
  /\ phase' = "idle"
  /\ lastFetch' = NoFetch
  /\ lastCall' = NoCall
  /\ lastLine' = NoLine
  /\ UNCHANGED <<processed_items, failed_lines, batch_dir, dirs, runs, lines, i,
                 process_mode, download, san>>

(***************************************************************************)
(* download_content on its own                                             *)
(***************************************************************************)
\* the values of the parameter mode (lines 42, 144)
Modes == {"video_only", "transcript_only", "both"}

\* the call download_content(url, output_dir, cookies_path, custom_name, mode)
\* (line 144) made for the one line of lines, with an empty directory 1 as
\* output_dir and any of the three modes
InitDownload ==
  /\ processed_items = <<>>
  /\ failed_lines = <<>>
  /\ batch_dir = 1
  /\ dirs = {1}
  /\ files = EmptyDir
  /\ phase = "running"
  /\ runs = 1
  /\ \E raw \in RawInputs :
       /\ Len(non_blank_lines(raw)) = 1
       /\ lines = non_blank_lines(raw)
  /\ i = 0
  /\ process_mode \in Modes
  /\ pc = "fetch"
  /\ new_files = <<>>
  /\ fi = 0
  /\ fetched = 0
  /\ processed_media_files = <<>>
  /\ processed_transcript_files = <<>>
  /\ error_msg = NoneMsg
  /\ lastFetch = NoFetch
  /\ lastCall = NoCall
  /\ lastLine = NoLine
  /\ san = NoSan

(***************************************************************************)
(* sanitize_filename on its own                                            *)
(***************************************************************************)
InitSanitize ==
  /\ Init!1 /\ Init!2 /\ Init!3 /\ Init!4 /\ Init!5 /\ Init!6 /\ Init!7
  /\ Init!8 /\ Init!9 /\ Init!10 /\ Init!11 /\ Init!12 /\ Init!13 /\ Init!14
  /\ Init!15 /\ Init!16 /\ Init!17 /\ Init!18 /\ Init!19 /\ Init!20
  /\ \E name \in SanInputs : san = [pc |-> "call", input |-> name, output |-> <<>>]

Sanitize ==
  /\ san.pc = "call"
  /\ san' = [san EXCEPT !.pc = "returned", !.output = sanitize_filename(san.input)]
  /\ UNCHANGED <<session, script, download, history>>

(***************************************************************************)
(* The specifications.                                                     *)
(***************************************************************************)
\* the application: a session of main()
Next ==
  \/ DownloadAll
  \/ DownloadAndTranscribeAll
  \/ Fetch
  \/ ProcessFile
  \/ FinishLine
  \/ StartFresh
  \/ Rerun

Spec == Init /\ [][Next]_vars

\* download_content called on its own, in each mode it accepts, on an empty
\* scratch directory: the steps up to its return (pc = "finish")
NextDownload ==
  \/ Fetch
  \/ ProcessFile

SpecModes == InitDownload /\ [][NextDownload]_vars

\* sanitize_filename applied to every string of SanInputs
SpecSanitize == InitSanitize /\ [][Sanitize]_vars

(***************************************************************************)
(* Properties.                                                             *)
(***************************************************************************)
\* download_content is about to return an acquisition error to main()
ReturningError == phase = "running" /\ pc = "finish" /\ error_msg.some

\* C1: process_media removes the original input only when the replacement
\* output exists and has a non-zero size at the moment of the removal.
C1_DeleteOnlyAfterNonEmptyOutput ==
  lastCall.ev.deleted => (lastCall.ev.out_exists /\ lastCall.ev.out_size > 0)

\* C2: a batch, once started, handles every one of its lines and completes:
\* no failure while handling a line ends the run early.
C2_BatchRunsEveryLine ==
  /\ phase # "aborted"
  /\ phase = "done" => i = Len(lines)

\* C3: when the fetch of a line raises, the line's url is recorded in
\* failed_lines with the message of the raised exception, and the line
\* leaves processed_items as it was.
C3_FetchErrorRecorded ==
  (lastLine.line >= 0 /\ lastLine.raised.some) =>
    /\ Len(processed_items) = lastLine.items_before
    /\ Len(failed_lines) = lastLine.failed_before + 1
    /\ failed_lines[Len(failed_lines)] = <<lastLine.url, lastLine.raised>>

\* C4: every failure record carries a non-empty message, in all three modes:
\* whenever download_content returns no media path and no transcript path, the
\* message it returns with them, which main() stores in the failure record
\* (line 287), is a non-empty text.
C4_FailureMessagesNonEmpty ==
  /\ \A k \in 1..Len(failed_lines) :
       failed_lines[k][2].some /\ failed_lines[k][2].text # ""
  /\ (phase = "running" /\ pc = "finish" /\ processed_media_files = <<>>
        /\ processed_transcript_files = <<>>)
       => error_msg.some /\ error_msg.text # ""

\* C5: in mode transcript_only a video file never yields a media path, whatever
\* the transcode did, and download_content collects no media path in that mode.
C5_TranscriptOnlyVideoHasNoMedia ==
  /\ (lastCall.mode = "transcript_only" /\ lastCall.ev.kind = "video")
       => lastCall.media = NonePath
  /\ process_mode = "transcript_only"
       => /\ processed_media_files = <<>>
          /\ \A k \in 1..Len(processed_items) : processed_items[k].media = NonePath

\* C6: in mode video_only the transcriber is never invoked and no transcript
\* path is returned, collected or stored in an item, and no transcript is written.
C6_VideoOnlyNeverTranscribes ==
  process_mode = "video_only" =>
    /\ lastCall.ev.tr = "skip"
    /\ lastCall.transcript = NonePath
    /\ processed_transcript_files = <<>>
    /\ \A k \in 1..Len(processed_items) : processed_items[k].transcript = NonePath
    /\ \A n \in DOMAIN files : files[n].form # "txt"

\* a video_only batch has transcoded a video, removed the original and stored the item
C6_Witness ==
  /\ process_mode = "video_only"
  /\ lastCall.ev.kind = "video"
  /\ lastCall.ev.tc = "ok"
  /\ lastCall.ev.deleted
  /\ processed_items # <<>>
  /\ processed_items[1].media # NonePath

\* the stem the naming policy gives the file at position index of a line named N
StemFor(N, index) ==
  IF index = 0 THEN sanitize_filename(N)
  ELSE sanitize_filename(N) \o <<"_">> \o Dec(index + 1)

\* C7 as claimed: every file of a line with custom name N ends up, at position
\* index, with the stem sanitize(N) or sanitize(N)_<index+1>.
C7_EveryFileTakesCustomStem ==
  (lastCall.line >= 0 /\ lastCall.custom_name # <<>> /\ ~lastCall.raised) =>
    PathStem(lastCall.media.name) = StemFor(lastCall.custom_name, lastCall.index)

\* C7 as amended: the file at position index ends up with that stem when
\* process_media replaced the original by its output (the original removed
\* after the transcode, or moved to the output name); the returned path is
\* that file, and it is in the scratch directory.
C7_NormalizedFileTakesCustomStem ==
  (lastCall.line >= 0 /\ lastCall.custom_name # <<>>
     /\ (lastCall.ev.deleted \/ lastCall.ev.moved)) =>
    /\ PathStem(lastCall.ev.output) = StemFor(lastCall.custom_name, lastCall.index)
    /\ lastCall.media = Path(batch_dir, lastCall.ev.output)
    /\ lastCall.ev.output \in DOMAIN files

\* the second file of a line named "t/ " was normalised and is now t_2
C7_Witness ==
  /\ lastCall.custom_name = <<"t", "/">>
  /\ lastCall.index = 1
  /\ lastCall.ev.deleted
  /\ PathStem(lastCall.media.name) = <<"t", "_", "2">>
  /\ Len(processed_media_files) = 2
  /\ PathStem(processed_media_files[1].name) = <<"t">>

\* C8: sanitize_filename returns a non-empty string with none of \ / * ? : " < > |
C8_SanitizeSafeNonEmpty ==
  san.pc = "returned" =>
    /\ san.output # <<>>
    /\ \A k \in 1..Len(san.output) : san.output[k] \notin IllegalChars

\* an input of illegal characters only came back as the fallback name
C8_Witness ==
  /\ san.pc = "returned"
  /\ san.input = <<"/", "*">>
  /\ san.output = MediaFile

\* C9: an acquisition error is reported only after one fallback fetch, the
\* second attempt for the line.
C9_OneFallbackBeforeError ==
  ReturningError => lastFetch.attempts = 2

\* C10: no two items of a batch share a media path, and no transcode writes
\* over the output made for another acquired file.
C10_OutputsCollisionFree ==
  /\ \A a, b \in 1..Len(processed_items) :
       (a # b /\ processed_items[a].media # NonePath)
         => processed_items[a].media # processed_items[b].media
  /\ ~ /\ lastCall.ev.tc \in {"ok", "empty"}
       /\ lastCall.prior.form \in {"mp4", "jpg"}
       /\ <<lastCall.prior.line, lastCall.prior.raw>>
            # <<lastCall.origin.line, lastCall.origin.raw>>

\* the last finished line is the line of the last process_media call, and that
\* call was on the only file the line's fetch found
OneFileLineDone ==
  /\ lastLine.line >= 0
  /\ lastLine.line = lastCall.line
  /\ lastLine.files = 1

\* C11: in mode both, a line "<url> - <name>" whose fetch found one video,
\* transcoded and transcribed without failure, adds exactly one item: its media
\* is <dir>/sanitize(name).mp4, its transcript <dir>/sanitize(name).txt (same
\* directory, same stem), both files are there, and no failure is recorded.
C11_NamedVideoWithTranscript ==
  (/\ OneFileLineDone
   /\ lastCall.mode = "both"
   /\ lastCall.custom_name # <<>>
   /\ lastCall.ev.kind = "video"
   /\ lastCall.ev.tc = "ok"
   /\ lastCall.ev.tr \in {"ok", "blank"}) =>
    LET stem == sanitize_filename(lastCall.custom_name)
    IN /\ lastLine.added = 1
       /\ Len(processed_items) = lastLine.items_before + 1
       /\ Len(failed_lines) = lastLine.failed_before
       /\ LET item == processed_items[Len(processed_items)]
          IN /\ item.media = Path(batch_dir, stem \o DotMp4)
             /\ item.transcript = Path(batch_dir, stem \o DotTxt)
             /\ item.name = stem \o DotMp4
             /\ PathStem(item.transcript.name) = PathStem(item.media.name)
             /\ item.media.name \in DOMAIN files
             /\ item.transcript.name \in DOMAIN files

\* the line "v?x - t/" of a both batch fetched a.mkv and delivered t.mp4 and t.txt
C11_Witness ==
  /\ OneFileLineDone
  /\ lastCall.mode = "both"
  /\ lastCall.custom_name = <<"t", "/">>
  /\ lastCall.name = <<"a", ".", "m", "k", "v">>
  /\ lastCall.ev.tc = "ok"
  /\ lastCall.ev.tr = "ok"
  /\ processed_items # <<>>
  /\ processed_items[Len(processed_items)].media.name = <<"t", ".", "m", "p", "4">>
  /\ processed_items[Len(processed_items)].transcript.name = <<"t", ".", "t", "x", "t">>
  /\ failed_lines = <<>>

\* C12: an item whose media is an image has no transcript, and an item's
\* transcript, when there is one, is the transcript made from that item's own
\* media file: the sibling <stem of the media>.txt.
C12_TranscriptBelongsToMedia ==
  \A k \in 1..Len(processed_items) :
    LET item == processed_items[k]
    IN /\ (item.media # NonePath /\ is_image(item.media.name))
            => item.transcript = NonePath
       /\ item.transcript # NonePath =>
            /\ item.media # NonePath
            /\ item.transcript = Path(item.media.dir, PathStem(item.media.name) \o DotTxt)

\* C13: a failure of the transcription (before the text file is opened, at
\* its first write, or part-way through writing it) never leaves
\* process_media: the call
\* returns no transcript and, in mode both, the path of the transcoded media,
\* which is on disk and is collected; when the line is finished it has added
\* items, the last of them with that media path, and no failure record.
C13_TranscriptionFailureAbsorbed ==
  lastCall.ev.tr \in {"raise", "raise_write", "raise_partial"} =>
    /\ ~lastCall.raised
    /\ phase # "aborted"
    /\ lastCall.transcript = NonePath
    /\ lastCall.mode = "both" =>
         /\ lastCall.media = Path(batch_dir, lastCall.ev.output)
         /\ lastCall.ev.output \in DOMAIN files
         /\ (phase = "running" /\ lastCall.line = i) =>
              /\ processed_media_files # <<>>
              /\ processed_media_files[Len(processed_media_files)] = lastCall.media
              /\ ~error_msg.some
         /\ lastLine.line = lastCall.line =>
              /\ lastLine.added >= 1
              /\ Len(processed_items) = lastLine.items_before + lastLine.added
              /\ processed_items[Len(processed_items)].media = lastCall.media
              /\ processed_items[Len(processed_items)].transcript = NonePath
              /\ Len(failed_lines) = lastLine.failed_before

\* a both batch whose only line fetched one video: the transcode succeeded, the
\* writing of the text file raised part-way, leaving a part of the text on
\* disk, and the line is finished with the media alone
C13_Witness ==
  /\ lastCall.ev.tr = "raise_partial"
  /\ \E n \in DOMAIN files : files[n].form = "partial" /\ EndsWith(n, DotTxt)
  /\ lastCall.mode = "both"
  /\ lastCall.ev.tc = "ok"
  /\ OneFileLineDone
  /\ phase = "done"
  /\ Len(processed_items) = 1
  /\ processed_items[1].media = lastCall.media
  /\ processed_items[1].transcript = NonePath
  /\ failed_lines = <<>>

\* C14: the files one fetch hands to process_media were all absent from the
\* scratch directory before that fetch (so none is an output or a transcript
\* of an earlier line), none ends in .part or .ytdl, they are in strictly
\* increasing lexicographic order, and process_media is called on them in
\* that order, with each one's position as index.
C14_OnlyNewFilesInOrder ==
  (phase \in {"running", "aborted"} /\ lastFetch.line = i) =>
    /\ new_files = lastFetch.found
    /\ \A k \in 1..Len(new_files) :
         /\ new_files[k] \notin lastFetch.existing
         /\ ~EndsWith(new_files[k], DotPart)
         /\ ~EndsWith(new_files[k], DotYtdl)
    /\ \A a, b \in 1..Len(new_files) : a < b => StrLess(new_files[a], new_files[b])
    /\ fi = 0 => lastCall.line # i \/ lastCall.raised
    /\ lastCall.line = i =>
         /\ lastCall.index = IF lastCall.raised THEN fi ELSE fi - 1
         /\ lastCall.name = new_files[lastCall.index + 1]
         /\ lastCall.name \notin lastFetch.existing

\* the fetch of the first line wrote a .ytdl file alone, which was handed to
\* no process_media call: the line failed.  The fetch of the second line found
\* a media file beside it, and process_media has been called on that file
C14_Witness ==
  /\ phase = "running"
  /\ lastFetch.line = 1
  /\ i = 1
  /\ \E n \in lastFetch.existing : EndsWith(n, DotYtdl)
  /\ Len(failed_lines) = 1
  /\ Len(new_files) = 1
  /\ lastCall.line = 1
  /\ fi = 1
  /\ lastCall.name \notin lastFetch.existing

\* the last process_media call was on a video whose transcode raised, or
\* returned with no file at the output path
VideoTranscodeFailed ==
  /\ lastCall.ev.kind = "video"
  /\ \/ lastCall.ev.tc \in TranscodeRaised
     \/ lastCall.ev.tc = "none" /\ lastCall.prior = NoContent

\* C15: when the transcode of a video fails, process_media returns the path of
\* the original as media path and no transcript, it does not invoke the
\* transcriber, and the original is still in the scratch directory, untouched.
C15_FailedTranscodeKeepsOriginal ==
  VideoTranscodeFailed =>
    /\ ~lastCall.raised
    /\ lastCall.media = Path(batch_dir, lastCall.name)
    /\ lastCall.transcript = NonePath
    /\ lastCall.ev.tr = "skip"
    /\ ~lastCall.ev.deleted
    /\ lastCall.name \in DOMAIN files
    /\ files[lastCall.name] = lastCall.origin

\* ffmpeg raised on a.mkv, and a.mkv came back as the media of the call
C15_Witness ==
  /\ VideoTranscodeFailed
  /\ lastCall.ev.tc = "raise"
  /\ lastCall.name = <<"a", ".", "m", "k", "v">>
  /\ lastCall.name # lastCall.ev.output
  /\ lastCall.media.name = lastCall.name
  /\ lastCall.name \in DOMAIN files

\* C16: the items and the failure records come from the lines of the most
\* recent run only (their paths lie in that run's scratch directory, their urls
\* are urls of its finished lines), and no scratch directory of an earlier run
\* is left once the directory of the next run is made.
C16_NewBatchDiscardsPrevious ==
  /\ \A k \in 1..Len(processed_items) :
       /\ processed_items[k].media # NonePath
            => processed_items[k].media.dir = batch_dir
       /\ processed_items[k].transcript # NonePath
            => processed_items[k].transcript.dir = batch_dir
  /\ Len(failed_lines) <= i
  /\ \A k \in 1..Len(failed_lines) :
       \E n \in 1..i : failed_lines[k][1] = parse_line(lines[n]).url
  /\ \A d \in dirs : d = batch_dir

\* C17: when a batch has completed, every media path and every transcript path
\* of its items is the path of a file in the scratch directory, which exists.
C17_ItemPathsExist ==
  phase = "done" =>
    \A k \in 1..Len(processed_items) :
      LET item == processed_items[k]
      IN /\ item.media # NonePath =>
              /\ item.media.dir = batch_dir
              /\ batch_dir \in dirs
              /\ item.media.name \in DOMAIN files
         /\ item.transcript # NonePath =>
              /\ item.transcript.dir = batch_dir
              /\ batch_dir \in dirs
              /\ item.transcript.name \in DOMAIN files

\* C18: a completed batch has finished every one of its lines, and the step
\* that finishes a line either appends one or more items to processed_items
\* and leaves failed_lines alone, or appends exactly one record, with the
\* line's url, to failed_lines and leaves processed_items alone: each line is
\* in exactly one bucket, and both lists are in the order of the lines.
C18_EachLineInOneBucket ==
  /\ [](phase = "done" => i = Len(lines) /\ Len(failed_lines) <= Len(lines))
  /\ [][i' = i + 1 =>
          \/ /\ failed_lines' = failed_lines
             /\ Len(processed_items') > Len(processed_items)
             /\ SubSeq(processed_items', 1, Len(processed_items)) = processed_items
          \/ /\ processed_items' = processed_items
             /\ failed_lines' =
                  Append(failed_lines, <<parse_line(lines[i + 1]).url, error_msg>>)
       ]_vars

\* a batch of two lines is complete: the first line gave the one item, the
\* second the one failure record
C18_Witness ==
  /\ phase = "done"
  /\ Len(lines) = 2
  /\ Len(processed_items) = 1
  /\ Len(failed_lines) = 1
  /\ lastLine.line = 1
  /\ lastLine.added = 0
  /\ lastLine.items_before = 1
  /\ failed_lines[1][1] = parse_line(lines[2]).url

\* C19: whenever processed_items is non-empty, batch_dir is set and that
\* directory exists; and a step that deletes a scratch directory leaves
\* processed_items empty.
C19_ItemsImplyScratchDir ==
  /\ [](processed_items # <<>> => batch_dir # 0 /\ batch_dir \in dirs)
  /\ [][(\E d \in dirs : d \notin dirs') => processed_items' = <<>>]_vars

\* a second batch was abandoned by a rerun after it had stored items: the
\* first batch's directory is gone, the directory of the second is there
C19_Witness ==
  /\ runs = 2
  /\ phase = "idle"
  /\ i < Len(lines)
  /\ processed_items # <<>>
  /\ batch_dir = 2
  /\ dirs = {2}

====
